---- MODULE Spec2Model ----
(***************************************************************************)
(* The put, rm and ls commands of gocommands as one state machine.  One    *)
(* behaviour is one command execution: Init is the process just before the *)
(* command handler runs, with its arguments and flags parsed; every action *)
(* is one step of processCommand / processRmCommand / processLsCommand or  *)
(* of the helper it calls (putOne, removeOne, listOne).  The remote layer  *)
(* (go-irodsclient) and the local file system are the environment: every   *)
(* call is appended to calls, and its answer is drawn with \E.             *)
(***************************************************************************)
EXTENDS Integers, Sequences, FiniteSets, TLC

\* ------------------------------------------------------------------ bounds
\* Most arguments on one command line.
MaxArgs == 2
\* Entry names are 1..MaxName, compared as Go compares strings (ascending).
MaxName == 2
\* Most replicas of one data object.
MaxReplicas == 2
\* Most local directory entries one put command gets to see.
MaxEntries == 4

VARIABLES
    cmd,            \* "put" | "rm" | "ls": the command this process runs
    args,           \* args []string, as raw paths
    force,          \* rm -f
    recurse,        \* rm -r
    longFormat,     \* ls -l
    veryLongFormat, \* ls -L
    remote,         \* the remote namespace under the working collection
    pc,             \* position in the handler
    idx,            \* index of the argument the handler's loop is at
    acquired,       \* file systems (session handles) obtained
    released,       \* filesystem.Release() calls
    connTaken,      \* GetMetadataConnection successes
    connReturned,   \* ReturnMetadataConnection calls
    calls,          \* every call to the remote layer and the local file system,
                    \* with its answer, in order
    out,            \* lines written to standard output, in order
    err,            \* the handler's return value (Nil until it returns)
    ret,            \* the value the helper (removeOne, listOne, putOne) returned
    path,           \* the helper's resolved remote path
    targetEntry,    \* removeOne: the classified entry type
    cmark,          \* Len(calls) when the current helper invocation began
    omark,          \* Len(out) when the current helper invocation began
    stack,          \* putOne: the directory invocations now in their loops
    cur,            \* putOne: the invocation now running
    seen            \* put: local entries revealed so far

vars == <<cmd, args, force, recurse, longFormat, veryLongFormat, remote, pc, idx,
          acquired, released, connTaken, connReturned, calls, out, err, ret,
          path, targetEntry, cmark, omark, stack, cur, seen>>

inputs == <<cmd, args, force, recurse, longFormat, veryLongFormat, remote>>
session == <<acquired, released>>
conns == <<connTaken, connReturned>>
marks == <<cmark, omark>>
putvars == <<stack, cur, seen>>

\* ------------------------------------------------------------------ errors
\* An error is the chain of xerrors.Errorf("...: %w") contexts, the cause last.
Nil == <<>>
NotFound == <<"NotFound">>
\* Any other failure of the remote layer: permission denied, connection lost.
Transport == <<"Transport">>
\* A failure of os.Stat or os.ReadDir.
LocalIO == <<"LocalIO">>

Errorf(context, e) == <<context>> \o e

Cause(e) == e[Len(e)]

IsFileNotFoundError(e) == e # Nil /\ Cause(e) = "NotFound"

\* ------------------------------------------------------------------- paths
\* A raw path is absolute or relative; segs are its cleaned segments.
Abs(s) == [abs |-> TRUE, segs |-> s]
Rel(s) == [abs |-> FALSE, segs |-> s]

\* The working collection of the session.
Cwd == <<1>>

\* commons.MakeIRODSPath: relative paths ("", ".", "a/b") are joined under the
\* working collection, absolute ones are kept.
MakeIRODSPath(raw) == IF raw.abs THEN raw.segs ELSE Cwd \o raw.segs

\* path.Dir and path.Base of a cleaned absolute path; "/" is its own parent.
Dir(p) == IF p = <<>> THEN <<>> ELSE SubSeq(p, 1, Len(p) - 1)
Base(p) == IF p = <<>> THEN 0 ELSE p[Len(p)]
Join(p, name) == Append(p, name)

IsPrefix(p, q) == Len(p) <= Len(q) /\ SubSeq(q, 1, Len(p)) = p

\* -------------------------------------------------------------------- calls
\* One call and its answer: err is the error it returned, kind the entry type
\* a stat answered, entries the names a listing answered.
Call(op, p, e) ==
    [op |-> op, path |-> p, src |-> <<>>, recursive |-> FALSE, force |-> FALSE,
     err |-> e, kind |-> "", entries |-> <<>>]

DeleteOps == {"RemoveFile", "RemoveDir"}
UploadOps == {"MakeDir", "UploadFileParallel"}
LocalOps == {"os.Stat", "os.ReadDir"}

CallsSince(mark) == SubSeq(calls, mark + 1, Len(calls))

OpsIn(s, ops) == {i \in 1..Len(s) : s[i].op \in ops}

\* ---------------------------------------------------------------- sequences
RECURSIVE SeqsUpTo(_, _)
SeqsUpTo(S, n) ==
    IF n = 0 THEN {<<>>}
    ELSE LET shorter == SeqsUpTo(S, n - 1)
         IN shorter \cup {Append(s, x) : s \in {t \in shorter : Len(t) = n - 1}, x \in S}

Range(s) == {s[i] : i \in 1..Len(s)}

\* Sequences of distinct elements of S, of every length.
Enumerations(S) == {s \in SeqsUpTo(S, Cardinality(S)) : Cardinality(Range(s)) = Len(s)}

\* The elements of a set of numbers, ascending.
RECURSIVE Ascending(_)
Ascending(S) ==
    IF S = {} THEN <<>>
    ELSE LET m == CHOOSE x \in S : \A y \in S : x <= y
         IN <<m>> \o Ascending(S \ {m})

\* ================================================================== rm ====
RmTargets == {Rel(<<1>>), Rel(<<2>>), Abs(<<2>>)}

\* As RmReturn, were Release called on the success path only.
RmReturn_leak(e) ==
    /\ pc' = "done"
    /\ err' = e
    /\ released' = IF e = Nil THEN released + 1 ELSE released

\* defer filesystem.Release() runs on every return after the client was made.
RmReturn(e) ==
    /\ pc' = "done"
    /\ err' = e
    /\ released' = released + 1

\* commons.GetIRODSFSClient(account)
processRmCommand_client ==
    /\ cmd = "rm" /\ pc = "start"
    /\ \/ /\ acquired' = acquired + 1
          /\ pc' = "args"
          /\ UNCHANGED err
       \/ /\ err' = Errorf("failed to get iRODS FS Client", Transport)
          /\ pc' = "done"
          /\ UNCHANGED acquired
    /\ UNCHANGED <<inputs, idx, released, conns, calls, out, ret, path, targetEntry,
                   marks, putvars>>

\* if len(args) == 0 { return error }
processRmCommand_args ==
    /\ cmd = "rm" /\ pc = "args"
    /\ IF Len(args) = 0
       THEN /\ RmReturn(Errorf("not enough input arguments", <<"Argument">>))
            /\ UNCHANGED idx
       ELSE /\ pc' = "loop"
            /\ idx' = 1
            /\ UNCHANGED <<err, released>>
    /\ UNCHANGED <<inputs, acquired, conns, calls, out, ret, path, targetEntry,
                   marks, putvars>>

\* for _, sourcePath := range args { err = removeOne(...) ... }; return nil
processRmCommand_loop ==
    /\ cmd = "rm" /\ pc = "loop"
    /\ IF idx <= Len(args)
       THEN /\ path' = MakeIRODSPath(args[idx])
            /\ targetEntry' = "none"
            /\ cmark' = Len(calls)
            /\ pc' = "stat"
            /\ UNCHANGED <<err, released>>
       ELSE /\ RmReturn(Nil)
            /\ UNCHANGED <<path, targetEntry, cmark>>
    /\ UNCHANGED <<inputs, idx, acquired, conns, calls, out, ret, omark, putvars>>

\* What commons.StatIRODSPath answers: an entry of one of the two types, or an
\* error (not found, or a failure of the remote layer).
StatIRODSPath(p) ==
    {[Call("StatIRODSPath", p, Nil) EXCEPT !.kind = t] : t \in {"FileEntry", "DirectoryEntry"}}
    \cup {Call("StatIRODSPath", p, e) : e \in {NotFound, Transport}}

\* As StatFailed, were only a not-found answer taken for a failure.
StatFailed_onlyNotFound(e) == IsFileNotFoundError(e)

\* if err != nil { return ... } after the stat
StatFailed(e) == e # Nil

\* removeOne: targetEntry, err := commons.StatIRODSPath(filesystem, targetPath)
removeOne_stat ==
    /\ cmd = "rm" /\ pc = "stat"
    /\ \E r \in StatIRODSPath(path) :
          /\ calls' = Append(calls, r)
          /\ IF StatFailed(r.err)
             THEN /\ ret' = Errorf("failed to stat", r.err)
                  /\ pc' = "returned"
                  /\ UNCHANGED targetEntry
             ELSE /\ targetEntry' = r.kind
                  /\ pc' = "dispatch"
                  /\ UNCHANGED ret
    /\ UNCHANGED <<inputs, idx, session, conns, out, err, path, marks, putvars>>

\* As RemoveCalls, without the recurse gate.
RemoveCalls_nogate(type, p, f, r) ==
    IF type = "FileEntry"
    THEN <<[Call("RemoveFile", p, Nil) EXCEPT !.force = f]>>
    ELSE <<[Call("RemoveDir", p, Nil) EXCEPT !.recursive = r, !.force = f]>>

\* As RemoveCalls, were force not passed to RemoveFile.
RemoveCalls_noforce(type, p, f, r) ==
    IF type = "FileEntry"
    THEN <<[Call("RemoveFile", p, Nil) EXCEPT !.force = FALSE]>>
    ELSE IF ~r THEN <<>>
    ELSE <<[Call("RemoveDir", p, Nil) EXCEPT !.recursive = r, !.force = f]>>

\* The delete call removeOne issues for a classified entry, without its answer;
\* none when the recurse gate refuses.
RemoveCalls(type, p, f, r) ==
    IF type = "FileEntry"
    THEN <<[Call("RemoveFile", p, Nil) EXCEPT !.force = f]>>
    ELSE IF ~r THEN <<>>
    ELSE <<[Call("RemoveDir", p, Nil) EXCEPT !.recursive = r, !.force = f]>>

\* removeOne: the type switch, the recurse gate and the delete call
removeOne_dispatch ==
    /\ cmd = "rm" /\ pc = "dispatch"
    /\ LET issued == RemoveCalls(targetEntry, path, force, recurse)
       IN IF issued = <<>>
          THEN /\ ret' = Errorf("cannot remove a collection, recurse is not set",
                                <<"SafetyGate">>)
               /\ UNCHANGED calls
          ELSE \E e \in {Nil, Transport} :
                  /\ calls' = Append(calls, [issued[1] EXCEPT !.err = e])
                  /\ ret' = IF e = Nil THEN Nil
                            ELSE IF targetEntry = "FileEntry"
                                 THEN Errorf("failed to remove", e)
                                 ELSE Errorf("failed to remove dir", e)
    /\ pc' = "returned"
    /\ UNCHANGED <<inputs, idx, session, conns, out, err, path, targetEntry, marks,
                   putvars>>

\* As RmStops, were the loop to go on after a failed removeOne.
RmStops_never(e) == FALSE

\* if err != nil { return ... } after removeOne
RmStops(e) == e # Nil

\* err = removeOne(...); if err != nil { return wrapped }
processRmCommand_returned ==
    /\ cmd = "rm" /\ pc = "returned"
    /\ IF RmStops(ret)
       THEN /\ RmReturn(Errorf("failed to perform rm", ret))
            /\ UNCHANGED idx
       ELSE /\ idx' = idx + 1
            /\ pc' = "loop"
            /\ UNCHANGED <<err, released>>
    /\ UNCHANGED <<inputs, acquired, conns, calls, out, ret, path, targetEntry,
                   marks, putvars>>

RmNext ==
    \/ processRmCommand_client
    \/ processRmCommand_args
    \/ processRmCommand_loop
    \/ removeOne_stat
    \/ removeOne_dispatch
    \/ processRmCommand_returned

\* ================================================================= put ===
\* The local working directory.
LocalCwd == <<0>>

\* commons.MakeLocalPath: a relative local path is joined under the working
\* directory, an absolute one is kept.
MakeLocalPath(raw) == IF raw.abs THEN raw.segs ELSE LocalCwd \o raw.segs

PutSources == {Rel(<<1>>), Abs(<<2>>)}
PutTargets == {Rel(<<2>>), Abs(<<2>>)}

\* processCommand: one argument is a source put into "./"; of two or more the
\* last is the target collection.
Sources(a) ==
    IF Len(a) = 1 THEN a
    ELSE IF Len(a) >= 2 THEN SubSeq(a, 1, Len(a) - 1)
    ELSE <<>>

TargetOf(a) == IF Len(a) >= 2 THEN a[Len(a)] ELSE Rel(<<>>)

\* defer filesystem.Release()
PutReturn(e) ==
    /\ pc' = "done"
    /\ err' = e
    /\ released' = released + 1

\* irodsclient_fs.NewFileSystemWithDefault(account, "gocommands-put")
processCommand_client ==
    /\ cmd = "put" /\ pc = "start"
    /\ \/ /\ acquired' = acquired + 1
          /\ pc' = "loop"
          /\ idx' = 1
          /\ UNCHANGED err
       \/ /\ err' = Transport
          /\ pc' = "done"
          /\ UNCHANGED <<acquired, idx>>
    /\ UNCHANGED <<inputs, released, conns, calls, out, ret, path, targetEntry,
                   marks, putvars>>

\* putOne(filesystem, args[0], "./"), or the loop over args[:len(args)-1]
processCommand_loop ==
    /\ cmd = "put" /\ pc = "loop"
    /\ IF idx <= Len(Sources(args))
       THEN /\ cur' = [src |-> MakeLocalPath(Sources(args)[idx]),
                       tgt |-> MakeIRODSPath(TargetOf(args)),
                       entries |-> <<>>]
            /\ cmark' = Len(calls)
            /\ pc' = "pstat"
            /\ UNCHANGED <<err, released>>
       ELSE /\ PutReturn(Nil)
            /\ UNCHANGED <<cur, cmark>>
    /\ UNCHANGED <<inputs, idx, acquired, conns, calls, out, ret, path, targetEntry,
                   omark, stack, seen>>

\* putOne: st, err := os.Stat(sourcePath)
putOne_stat ==
    /\ cmd = "put" /\ pc = "pstat"
    /\ \/ /\ calls' = Append(calls, Call("os.Stat", cur.src, LocalIO))
          /\ ret' = LocalIO
          /\ pc' = "preturned"
          /\ UNCHANGED seen
       \/ \E k \in {"file", "dir"} :
             /\ stack = <<>> => seen < MaxEntries
             /\ seen' = IF stack = <<>> THEN seen + 1 ELSE seen
             /\ calls' = Append(calls, [Call("os.Stat", cur.src, Nil) EXCEPT !.kind = k])
             /\ pc' = IF k = "dir" THEN "readdir" ELSE "upload"
             /\ UNCHANGED ret
    /\ UNCHANGED <<inputs, idx, session, conns, out, err, path, targetEntry, marks,
                   stack, cur>>

\* putDataObject: filesystem.UploadFileParallel(sourcePath, targetPath, ...)
putDataObject ==
    /\ cmd = "put" /\ pc = "upload"
    /\ \E e \in {Nil, Transport} :
          /\ calls' = Append(calls, [Call("UploadFileParallel", cur.tgt, e)
                                        EXCEPT !.src = cur.src])
          /\ ret' = e
    /\ pc' = "preturned"
    /\ UNCHANGED <<inputs, idx, session, conns, out, err, path, targetEntry, marks,
                   putvars>>

\* os.ReadDir answers the directory's entries sorted by file name.
ReadDir(names) == Ascending(names)

\* putOne: entries, err := os.ReadDir(sourcePath)
putOne_readdir ==
    /\ cmd = "put" /\ pc = "readdir"
    /\ \/ /\ calls' = Append(calls, Call("os.ReadDir", cur.src, LocalIO))
          /\ ret' = LocalIO
          /\ pc' = "preturned"
          /\ UNCHANGED <<cur, seen>>
       \/ \E names \in SUBSET (1..MaxName) :
             /\ seen + Cardinality(names) <= MaxEntries
             /\ seen' = seen + Cardinality(names)
             /\ calls' = Append(calls, [Call("os.ReadDir", cur.src, Nil)
                                           EXCEPT !.entries = ReadDir(names)])
             /\ cur' = [cur EXCEPT !.entries = ReadDir(names)]
             /\ pc' = "mkdir"
             /\ UNCHANGED ret
    /\ UNCHANGED <<inputs, idx, session, conns, out, err, path, targetEntry, marks,
                   stack>>

\* targetDir := filepath.Join(targetPath, filepath.Base(sourcePath))
TargetDir(targetPath, sourcePath) == Join(targetPath, Base(sourcePath))

\* putOne: err = filesystem.MakeDir(targetDir, true)
putOne_mkdir ==
    /\ cmd = "put" /\ pc = "mkdir"
    /\ LET targetDir == TargetDir(cur.tgt, cur.src)
       IN \E e \in {Nil, Transport} :
             /\ calls' = Append(calls, [Call("MakeDir", targetDir, e)
                                           EXCEPT !.recursive = TRUE])
             /\ IF e # Nil
                THEN /\ ret' = e
                     /\ pc' = "preturned"
                     /\ UNCHANGED stack
                ELSE /\ stack' = Append(stack, [cur EXCEPT !.tgt = targetDir])
                     /\ pc' = "ploop"
                     /\ UNCHANGED ret
    /\ UNCHANGED <<inputs, idx, session, conns, out, err, path, targetEntry, marks,
                   cur, seen>>

\* As ChildTarget, were the entry's own remote path passed as its target.
ChildTarget_joined(targetDir, name) == Join(targetDir, name)

\* The target putOne passes to the recursive call for the entry `name`.
ChildTarget(targetDir, name) == targetDir

\* putOne: for _, entryInDir := range entries { err = putOne(...) }; return nil
putOne_loop ==
    /\ cmd = "put" /\ pc = "ploop"
    /\ LET frame == stack[Len(stack)]
       IN IF frame.entries # <<>>
          THEN /\ cur' = [src |-> MakeLocalPath(Abs(Join(frame.src, Head(frame.entries)))),
                          tgt |-> MakeIRODSPath(Abs(ChildTarget(frame.tgt,
                                                               Head(frame.entries)))),
                          entries |-> <<>>]
               /\ stack' = [stack EXCEPT ![Len(stack)].entries = Tail(frame.entries)]
               /\ pc' = "pstat"
               /\ UNCHANGED ret
          ELSE /\ stack' = SubSeq(stack, 1, Len(stack) - 1)
               /\ ret' = Nil
               /\ pc' = "preturned"
               /\ UNCHANGED cur
    /\ UNCHANGED <<inputs, idx, session, conns, calls, out, err, path, targetEntry,
                   marks, seen>>

\* As PutStops, were the walk to go on after a failed entry.
PutStops_never(e) == FALSE

\* if err != nil { return err } after a putOne
PutStops(e) == e # Nil

\* putOne: err = putOne(child); if err != nil { return err }
putOne_returned ==
    /\ cmd = "put" /\ pc = "preturned" /\ stack # <<>>
    /\ IF PutStops(ret)
       THEN /\ stack' = SubSeq(stack, 1, Len(stack) - 1)
            /\ pc' = "preturned"
       ELSE /\ pc' = "ploop"
            /\ UNCHANGED stack
    /\ UNCHANGED <<inputs, idx, session, conns, calls, out, err, ret, path,
                   targetEntry, marks, cur, seen>>

\* processCommand: err = putOne(...); if err != nil { return err }
processCommand_returned ==
    /\ cmd = "put" /\ pc = "preturned" /\ stack = <<>>
    /\ IF PutStops(ret)
       THEN /\ PutReturn(ret)
            /\ UNCHANGED idx
       ELSE /\ idx' = idx + 1
            /\ pc' = "loop"
            /\ UNCHANGED <<err, released>>
    /\ UNCHANGED <<inputs, acquired, conns, calls, out, ret, path, targetEntry,
                   marks, putvars>>

PutNext ==
    \/ processCommand_client
    \/ processCommand_loop
    \/ putOne_stat
    \/ putDataObject
    \/ putOne_readdir
    \/ putOne_mkdir
    \/ putOne_loop
    \/ putOne_returned
    \/ processCommand_returned

\* ================================================================== ls ===
\* The remote namespace: "/" holds the working collection; the working
\* collection holds the sub-collections remote.colls and the data objects
\* remote.objs, each in the order the catalog enumerates them, every object
\* with remote.reps replicas; the sub-collections are empty.
CollNames == 1..MaxName
ObjNames == (MaxName + 1)..(2 * MaxName)

Namespaces ==
    {[colls |-> c, objs |-> o, reps |-> r] :
        c \in Enumerations(CollNames), o \in Enumerations(ObjNames), r \in 1..MaxReplicas}

Kind(p) ==
    IF p = <<>> \/ p = Cwd THEN "coll"
    ELSE IF Dir(p) # Cwd THEN "none"
    ELSE IF Base(p) \in Range(remote.colls) THEN "coll"
    ELSE IF Base(p) \in Range(remote.objs) THEN "obj"
    ELSE "none"

SubCollectionsOf(p) ==
    IF p = Cwd THEN remote.colls
    ELSE IF p = <<>> THEN Cwd
    ELSE <<>>

DataObjectsOf(p) == IF p = Cwd THEN remote.objs ELSE <<>>

\* "." (what ls lists without arguments), a name of the working collection,
\* and a name below its first sub-collection.
LsPaths == {Rel(<<>>), Rel(<<MaxName + 1>>), Rel(<<1, MaxName + 1>>)}

\* A line of output: "obj", a data object's name, bare in the short form
\* (replica -1) and after a replica's columns otherwise; "detail", the very
\* long form's second line, the replica's checksum and physical path (name is
\* the object whose replica it is); "coll", a collection's "C- path".
Line(kind, name, p, replica) ==
    [kind |-> kind, name |-> name, path |-> p, replica |-> replica]

RECURSIVE ReplicaLines(_, _, _)
ReplicaLines(entry, k, veryLong) ==
    IF k >= entry.replicas THEN <<>>
    ELSE (IF veryLong
          THEN <<Line("obj", entry.name, <<>>, k), Line("detail", entry.name, <<>>, k)>>
          ELSE <<Line("obj", entry.name, <<>>, k)>>)
         \o ReplicaLines(entry, k + 1, veryLong)

printDataObject(entry, veryLong, long) ==
    IF veryLong THEN ReplicaLines(entry, 0, TRUE)
    ELSE IF long THEN ReplicaLines(entry, 0, FALSE)
    ELSE <<Line("obj", entry.name, <<>>, -1)>>

\* sort.SliceStable(entries, func(i, j) { return entries[i].Name < entries[j].Name })
RECURSIVE InsertStable(_, _)
InsertStable(sorted, x) ==
    IF sorted = <<>> THEN <<x>>
    ELSE IF x.name < sorted[Len(sorted)].name
         THEN Append(InsertStable(SubSeq(sorted, 1, Len(sorted) - 1), x), sorted[Len(sorted)])
         ELSE Append(sorted, x)

\* As SliceStable, were the entries left in the enumeration's order.
SliceStable_unsorted(entries) == entries

RECURSIVE SliceStable(_)
SliceStable(entries) ==
    IF entries = <<>> THEN <<>>
    ELSE InsertStable(SliceStable(SubSeq(entries, 1, Len(entries) - 1)),
                      entries[Len(entries)])

RECURSIVE printEach(_, _, _)
printEach(entries, veryLong, long) ==
    IF entries = <<>> THEN <<>>
    ELSE printDataObject(Head(entries), veryLong, long)
         \o printEach(Tail(entries), veryLong, long)

printDataObjects(entries, veryLong, long) ==
    printEach(SliceStable(entries), veryLong, long)

printCollections(entries) ==
    LET sorted == SliceStable(entries)
    IN [i \in 1..Len(sorted) |-> Line("coll", sorted[i].name, sorted[i].path, -1)]

\* The descriptors the listings answer, from the names the catalog enumerates.
DataObjects(names) == [i \in 1..Len(names) |-> [name |-> names[i], replicas |-> remote.reps]]
Collections(p, names) == [i \in 1..Len(names) |-> [name |-> names[i], path |-> Join(p, names[i])]]

\* defer filesystem.Release()
LsReturn(e) ==
    /\ pc' = "done"
    /\ err' = e
    /\ released' = released + 1

\* defer fs.ReturnMetadataConnection(connection), and listOne's return
ListReturn(e) ==
    /\ ret' = e
    /\ connReturned' = connReturned + 1
    /\ pc' = "lreturned"
    /\ UNCHANGED connTaken

\* commons.GetIRODSFSClient(account)
processLsCommand_client ==
    /\ cmd = "ls" /\ pc = "start"
    /\ \/ /\ acquired' = acquired + 1
          /\ pc' = "loop"
          /\ idx' = 1
          /\ UNCHANGED err
       \/ /\ err' = Errorf("failed to get iRODS FS Client", Transport)
          /\ pc' = "done"
          /\ UNCHANGED <<acquired, idx>>
    /\ UNCHANGED <<inputs, released, conns, calls, out, ret, path, targetEntry,
                   marks, putvars>>

\* sourcePaths := args[:]; if len(args) == 0 { sourcePaths = []string{"."} }
SourcePaths(a) == IF Len(a) = 0 THEN <<Rel(<<>>)>> ELSE a

\* for _, sourcePath := range sourcePaths { err = listOne(...) ... }; return nil
processLsCommand_loop ==
    /\ cmd = "ls" /\ pc = "loop"
    /\ IF idx <= Len(SourcePaths(args))
       THEN /\ path' = MakeIRODSPath(SourcePaths(args)[idx])
            /\ cmark' = Len(calls)
            /\ omark' = Len(out)
            /\ pc' = "connection"
            /\ UNCHANGED <<err, released>>
       ELSE /\ LsReturn(Nil)
            /\ UNCHANGED <<path, cmark, omark>>
    /\ UNCHANGED <<inputs, idx, acquired, conns, calls, out, ret, targetEntry, putvars>>

\* listOne: connection, err := fs.GetMetadataConnection()
listOne_connection ==
    /\ cmd = "ls" /\ pc = "connection"
    /\ \/ /\ connTaken' = connTaken + 1
          /\ pc' = "collection"
          /\ UNCHANGED <<ret, connReturned>>
       \/ /\ ret' = Errorf("failed to get connection", Transport)
          /\ pc' = "lreturned"
          /\ UNCHANGED conns
    /\ UNCHANGED <<inputs, idx, session, calls, out, err, path, targetEntry, marks,
                   putvars>>

\* What a lookup answers: the truth of the namespace, or a failure of the layer.
Answers(truth) == {truth, Transport}

\* As LookupFatal, were every failed collection lookup to fall back.
LookupFatal_never(e) == FALSE

\* if err != nil { if !IsFileNotFoundError(err) { return ... } }
LookupFatal(e) == e # Nil /\ ~IsFileNotFoundError(e)

\* listOne: collection, err := irodsclient_irodsfs.GetCollection(connection, sourcePath)
listOne_collection ==
    /\ cmd = "ls" /\ pc = "collection"
    /\ \E e \in Answers(IF Kind(path) = "coll" THEN Nil ELSE NotFound) :
          /\ calls' = Append(calls, Call("GetCollection", path, e))
          /\ IF LookupFatal(e)
             THEN ListReturn(Errorf("failed to get collection", e))
             ELSE /\ pc' = IF e = Nil THEN "subcollections" ELSE "parent"
                  /\ UNCHANGED <<ret, conns>>
    /\ UNCHANGED <<inputs, idx, session, out, err, path, targetEntry, marks, putvars>>

\* listOne: colls, err := irodsclient_irodsfs.ListSubCollections(connection, sourcePath)
listOne_subCollections ==
    /\ cmd = "ls" /\ pc = "subcollections"
    /\ \E e \in Answers(Nil) :
          /\ calls' = Append(calls, [Call("ListSubCollections", path, e) EXCEPT
                                        !.entries = IF e = Nil THEN SubCollectionsOf(path)
                                                    ELSE <<>>])
          /\ IF e # Nil
             THEN ListReturn(Errorf("failed to list sub-collections", e))
             ELSE /\ pc' = "dataobjects"
                  /\ UNCHANGED <<ret, conns>>
    /\ UNCHANGED <<inputs, idx, session, out, err, path, targetEntry, marks, putvars>>

\* listOne: objs, err := irodsclient_irodsfs.ListDataObjects(connection, collection),
\* then printDataObjects(objs, ...); printCollections(colls); return nil
listOne_dataObjects ==
    /\ cmd = "ls" /\ pc = "dataobjects"
    /\ LET colls == Collections(path, calls[Len(calls)].entries)
       IN \E e \in Answers(Nil) :
             /\ calls' = Append(calls, [Call("ListDataObjects", path, e) EXCEPT
                                           !.entries = IF e = Nil THEN DataObjectsOf(path)
                                                       ELSE <<>>])
             /\ IF e # Nil
                THEN /\ ListReturn(Errorf("failed to list data-objects", e))
                     /\ UNCHANGED out
                ELSE /\ out' = out \o printDataObjects(DataObjects(DataObjectsOf(path)),
                                                     veryLongFormat, longFormat)
                                 \o printCollections(colls)
                     /\ ListReturn(Nil)
    /\ UNCHANGED <<inputs, idx, session, err, path, targetEntry, marks, putvars>>

\* listOne: parentCollection, err := GetCollection(connection, path.Dir(sourcePath))
listOne_parent ==
    /\ cmd = "ls" /\ pc = "parent"
    /\ \E e \in Answers(IF Kind(Dir(path)) = "coll" THEN Nil ELSE NotFound) :
          /\ calls' = Append(calls, Call("GetCollection", Dir(path), e))
          /\ IF e # Nil
             THEN ListReturn(Errorf("failed to get collection", e))
             ELSE /\ pc' = "dataobject"
                  /\ UNCHANGED <<ret, conns>>
    /\ UNCHANGED <<inputs, idx, session, out, err, path, targetEntry, marks, putvars>>

\* listOne: entry, err := GetDataObject(connection, parentCollection, path.Base(sourcePath)),
\* then printDataObject(entry, ...); return nil
listOne_dataObject ==
    /\ cmd = "ls" /\ pc = "dataobject"
    /\ \E e \in Answers(IF Kind(path) = "obj" THEN Nil ELSE NotFound) :
          /\ calls' = Append(calls, [Call("GetDataObject", Dir(path), e) EXCEPT
                                        !.entries = <<Base(path)>>])
          /\ IF e # Nil
             THEN /\ ListReturn(Errorf("failed to get data-object", e))
                  /\ UNCHANGED out
             ELSE /\ out' = out \o printDataObject([name |-> Base(path),
                                                    replicas |-> remote.reps],
                                                   veryLongFormat, longFormat)
                  /\ ListReturn(Nil)
    /\ UNCHANGED <<inputs, idx, session, err, path, targetEntry, marks, putvars>>

\* As LsStops, were the loop to go on after a failed listOne.
LsStops_never(e) == FALSE

\* if err != nil { return ... } after listOne
LsStops(e) == e # Nil

\* processLsCommand: err = listOne(...); if err != nil { return wrapped }
processLsCommand_returned ==
    /\ cmd = "ls" /\ pc = "lreturned"
    /\ IF LsStops(ret)
       THEN /\ LsReturn(Errorf("failed to perform ls", ret))
            /\ UNCHANGED idx
       ELSE /\ idx' = idx + 1
            /\ pc' = "loop"
            /\ UNCHANGED <<err, released>>
    /\ UNCHANGED <<inputs, acquired, conns, calls, out, ret, path, targetEntry,
                   marks, putvars>>

LsNext ==
    \/ processLsCommand_client
    \/ processLsCommand_loop
    \/ listOne_connection
    \/ listOne_collection
    \/ listOne_subCollections
    \/ listOne_dataObjects
    \/ listOne_parent
    \/ listOne_dataObject
    \/ processLsCommand_returned

\* ================================================================ whole ===
NoRemote == [colls |-> <<>>, objs |-> <<>>, reps |-> 1]

InitRm ==
    /\ cmd = "rm"
    /\ args \in SeqsUpTo(RmTargets, MaxArgs)
    /\ force \in BOOLEAN
    /\ recurse \in BOOLEAN
    /\ longFormat = FALSE
    /\ veryLongFormat = FALSE
    /\ remote = NoRemote

InitPut ==
    /\ cmd = "put"
    /\ args \in {<<>>} \cup {<<s>> : s \in PutSources}
               \cup {srcs \o <<t>> : srcs \in SeqsUpTo(PutSources, MaxArgs) \ {<<>>},
                                     t \in PutTargets}
    /\ force = FALSE
    /\ recurse = FALSE
    /\ longFormat = FALSE
    /\ veryLongFormat = FALSE
    /\ remote = NoRemote

InitLs ==
    /\ cmd = "ls"
    /\ args \in SeqsUpTo(LsPaths, MaxArgs)
    /\ force = FALSE
    /\ recurse = FALSE
    /\ longFormat \in BOOLEAN
    /\ veryLongFormat \in BOOLEAN
    /\ remote \in {n \in Namespaces : n.objs = <<>> => n.reps = 1}

Init ==
    /\ (InitPut \/ InitRm \/ InitLs)
    /\ pc = "start"
    /\ idx = 0
    /\ acquired = 0
    /\ released = 0
    /\ connTaken = 0
    /\ connReturned = 0
    /\ calls = <<>>
    /\ out = <<>>
    /\ err = Nil
    /\ ret = Nil
    /\ path = <<>>
    /\ targetEntry = "none"
    /\ cmark = 0
    /\ omark = 0
    /\ stack = <<>>
    /\ cur = [src |-> <<>>, tgt |-> <<>>, entries |-> <<>>]
    /\ seen = 0

Next == PutNext \/ RmNext \/ LsNext

Spec == Init /\ [][Next]_vars

\* ============================================================== claims ===
Last(s) == s[Len(s)]

\* The calls of the helper invocation now running (or just returned).
Segment == CallsSince(cmark)

InRemoveOne == cmd = "rm" /\ pc \in {"stat", "dispatch", "returned"}
InListOne ==
    cmd = "ls" /\ pc \in {"connection", "collection", "subcollections", "dataobjects",
                          "parent", "dataobject", "lreturned"}

\* C1: a removeOne whose target is classified as a collection, with recurse
\* unset, returns the safety-gate error and issues no delete call, whatever
\* force is.
C1_GateBeforeDelete ==
    (InRemoveOne /\ targetEntry = "DirectoryEntry" /\ ~recurse) =>
        /\ OpsIn(Segment, DeleteOps) = {}
        /\ pc = "returned" => (ret # Nil /\ Cause(ret) = "SafetyGate")

C1_Witness ==
    /\ cmd = "rm" /\ pc = "returned"
    /\ targetEntry = "DirectoryEntry" /\ ~recurse /\ force

\* C2: a removeOne that got past the gate issues exactly one delete call, of
\* the classified type, on the target, with the caller's force flag: RemoveFile
\* for a data object, RemoveDir(recursive = true) for a collection with recurse.
C2_OneMatchingDelete ==
    (cmd = "rm" /\ pc = "returned" /\ targetEntry # "none"
                /\ (targetEntry = "DirectoryEntry" => recurse)) =>
        \E i \in 1..Len(Segment) :
            /\ OpsIn(Segment, DeleteOps) = {i}
            /\ Segment[i].path = path
            /\ Segment[i].force = force
            /\ IF targetEntry = "FileEntry"
               THEN Segment[i].op = "RemoveFile"
               ELSE Segment[i].op = "RemoveDir" /\ Segment[i].recursive

C2_Witness ==
    /\ cmd = "rm" /\ pc = "returned" /\ ret = Nil
    /\ targetEntry = "FileEntry" /\ force
    /\ Last(calls).op = "RemoveFile"

\* The local entries one putOne segment saw, and the remote calls it issued.
TargetColl(c) == IF c.op = "MakeDir" THEN Dir(c.path) ELSE c.path

PutTarget == MakeIRODSPath(TargetOf(args))

RECURSIVE Only(_, _)
Only(s, ops) ==
    IF s = <<>> THEN <<>>
    ELSE (IF Head(s).op \in ops THEN <<Head(s)>> ELSE <<>>) \o Only(Tail(s), ops)

\* The tree root/{a.txt, sub/b.txt}: what os.Stat and os.ReadDir answer for it,
\* and the remote calls the spec lists for it (1 < 2 as "a.txt" < "sub").
ExampleLocal(root) ==
    << [Call("os.Stat", root, Nil) EXCEPT !.kind = "dir"],
       [Call("os.ReadDir", root, Nil) EXCEPT !.entries = <<1, 2>>],
       [Call("os.Stat", Join(root, 1), Nil) EXCEPT !.kind = "file"],
       [Call("os.Stat", Join(root, 2), Nil) EXCEPT !.kind = "dir"],
       [Call("os.ReadDir", Join(root, 2), Nil) EXCEPT !.entries = <<1>>],
       [Call("os.Stat", Join(Join(root, 2), 1), Nil) EXCEPT !.kind = "file"] >>

ExampleRemote(root, T) ==
    LET top == Join(T, Base(root))
        sub == Join(top, 2)
    IN << [Call("MakeDir", top, Nil) EXCEPT !.recursive = TRUE],
          [Call("UploadFileParallel", top, Nil) EXCEPT !.src = Join(root, 1)],
          [Call("MakeDir", sub, Nil) EXCEPT !.recursive = TRUE],
          [Call("UploadFileParallel", sub, Nil) EXCEPT !.src = Join(Join(root, 2), 1)] >>

PutOneDone == cmd = "put" /\ pc = "preturned" /\ stack = <<>>

\* C3: within one top-level putOne, every upload or create whose target
\* collection is not the command's target is preceded by the successful create
\* of that collection, every create precedes every call at or below it, and
\* the tree root/{a.txt, sub/b.txt} gives create T/root, upload a.txt, create
\* T/root/sub, upload b.txt, in this order.
C3_CreateBeforeChildren ==
    cmd = "put" =>
        /\ \A j \in OpsIn(Segment, UploadOps) :
              TargetColl(Segment[j]) # PutTarget =>
                  \E i \in 1..(j - 1) :
                      /\ Segment[i].op = "MakeDir"
                      /\ Segment[i].err = Nil
                      /\ Segment[i].path = TargetColl(Segment[j])
        /\ \A i \in OpsIn(Segment, {"MakeDir"}), j \in OpsIn(Segment, UploadOps) :
              (i # j /\ IsPrefix(Segment[i].path, TargetColl(Segment[j]))) => i < j
        /\ \A root \in {MakeLocalPath(r) : r \in PutSources} :
              (PutOneDone /\ ret = Nil /\ Only(Segment, LocalOps) = ExampleLocal(root)) =>
                  Only(Segment, UploadOps) = ExampleRemote(root, PutTarget)

C3_Witness ==
    /\ PutOneDone /\ ret = Nil
    /\ \E root \in {MakeLocalPath(r) : r \in PutSources} :
          /\ Only(Segment, LocalOps) = ExampleLocal(root)
          /\ Only(Segment, UploadOps) = ExampleRemote(root, PutTarget)

\* C4: the upload is fail-fast: a step that failed is the last step of the
\* command (nothing is issued after it, for siblings, for the rest of the tree
\* or for the remaining sources, and nothing undoes the steps before it), and
\* its error is what every enclosing putOne and the command return.
C4_FailFast ==
    cmd = "put" =>
        /\ \A i \in 1..(Len(calls) - 1) : calls[i].err = Nil
        /\ (calls # <<>> /\ Last(calls).err # Nil) =>
              \/ pc = "preturned" /\ ret = Last(calls).err
              \/ pc = "done" /\ err = Last(calls).err
        /\ (pc = "done" /\ err # Nil /\ acquired = 1) =>
              (calls # <<>> /\ Last(calls).err = err)

\* An upload failed with a sibling entry and a source argument still to do.
C4_Witness ==
    /\ cmd = "put" /\ pc = "done" /\ err = Transport
    /\ idx < Len(Sources(args))
    /\ calls # <<>>
    /\ Last(calls).op = "UploadFileParallel"
    /\ \E i \in 1..Len(calls) :
          /\ calls[i].op = "os.ReadDir"
          /\ calls[i].entries # <<>>
          /\ calls[i].path = Dir(Last(calls).src)
          /\ Base(Last(calls).src) # Last(calls[i].entries)

C5_NoOutputForThePath ==
    (InListOne /\ Kind(path) = "none") =>
        /\ Len(out) = omark
        /\ idx = 1 => out = <<>>
        /\ pc = "lreturned" =>
              /\ ret # Nil
              /\ Cause(ret) # "Transport" => IsFileNotFoundError(ret)

\* The command returns listOne's error with the output as listOne found it.
C5_Returned ==
    (cmd = "ls" /\ pc = "done" /\ acquired = 1 /\ Kind(path) = "none") =>
        /\ Len(out) = omark
        /\ ret # Nil /\ err = Errorf("failed to perform ls", ret)

C6_FallbackOnlyOnNotFound ==
    cmd = "ls" =>
        /\ InListOne =>
              /\ \A i \in 1..Len(Segment) :
                    IF i = 1 THEN Segment[i] \in {Call("GetCollection", path, e) :
                                                    e \in {Nil, NotFound, Transport}}
                    ELSE IF IsFileNotFoundError(Segment[1].err)
                    THEN /\ i <= 3
                         /\ i = 2 => /\ Segment[i].op = "GetCollection"
                                     /\ Segment[i].path = Dir(path)
                         /\ i = 3 => /\ Segment[i].op = "GetDataObject"
                                     /\ Segment[i].path = Dir(path)
                                     /\ Segment[i].entries = <<Base(path)>>
                    ELSE Segment[i].op \in {"ListSubCollections", "ListDataObjects"}
              /\ \A i \in 1..Len(Segment) :
                    (Segment[i].err # Nil /\ ~(i = 1 /\ IsFileNotFoundError(Segment[1].err))) =>
                        /\ i = Len(Segment)
                        /\ pc = "lreturned"
                        /\ Cause(ret) = Cause(Segment[i].err)
                        /\ Len(out) = omark
        /\ \A i \in 1..(Len(calls) - 1) :
              calls[i].err # Nil =>
                  /\ IsFileNotFoundError(calls[i].err)
                  /\ calls[i].op = "GetCollection"
                  /\ calls[i + 1].op = "GetCollection"
                  /\ calls[i + 1].path = Dir(calls[i].path)

C6_Witness ==
    /\ cmd = "ls" /\ pc = "lreturned"
    /\ Len(Segment) = 2
    /\ IsFileNotFoundError(Segment[1].err)
    /\ Segment[2].err = Transport
    /\ Cause(ret) = "Transport"

\* The lines of the listing listOne just wrote.
Listing == SubSeq(out, omark + 1, Len(out))

RECURSIVE NamingLines(_)
NamingLines(lines) ==
    IF lines = <<>> THEN <<>>
    ELSE (IF Head(lines).kind # "detail" THEN <<Head(lines)>> ELSE <<>>) \o NamingLines(Tail(lines))

Listed ==
    /\ cmd = "ls" /\ pc = "lreturned" /\ ret = Nil
    /\ Segment[1].err = Nil

ListedColls == Range(Segment[2].entries)
ListedObjs == Range(Segment[3].entries)

\* The lines that name an entry: all but the very long form's detail lines.
NameLines == NamingLines(Listing)

\* C7 as stated: every listing names each data object once, ascending, then
\* each sub-collection once, ascending.
C7_EachEntryOnce ==
    Listed =>
        [i \in 1..Len(NameLines) |-> <<NameLines[i].kind, NameLines[i].name>>]
            = [i \in 1..Cardinality(ListedObjs) |-> <<"obj", Ascending(ListedObjs)[i]>>]
              \o [i \in 1..Cardinality(ListedColls) |-> <<"coll", Ascending(ListedColls)[i]>>]

LinesPerObject == IF veryLongFormat \/ longFormat THEN remote.reps ELSE 1

\* C7, amended: whatever the enumeration order, no collection line precedes an
\* object line, object lines ascend by name and collection lines strictly; each
\* sub-collection has exactly one line, and each data object exactly one line
\* in the short form and one line per replica in the long and very long forms
\* (there each followed by that replica's detail line).
C7_SortedSections ==
    Listed =>
        /\ \A i, j \in 1..Len(Listing) :
              i < j =>
                  /\ Listing[i].kind = "coll" => Listing[j].kind = "coll"
                  /\ (Listing[i].kind # "coll" /\ Listing[j].kind # "coll") =>
                        Listing[i].name <= Listing[j].name
                  /\ (Listing[i].kind = "coll" /\ Listing[j].kind = "coll") =>
                        Listing[i].name < Listing[j].name
        /\ {Listing[i].name : i \in {k \in 1..Len(Listing) : Listing[k].kind = "obj"}}
              = ListedObjs
        /\ \A n \in ListedObjs :
              Cardinality({i \in 1..Len(Listing) :
                              Listing[i].kind = "obj" /\ Listing[i].name = n}) = LinesPerObject
        /\ \A i \in 1..Len(Listing) :
              /\ Listing[i].kind = "detail" =>
                    /\ veryLongFormat /\ i > 1
                    /\ Listing[i - 1] = [Listing[i] EXCEPT !.kind = "obj"]
              /\ (Listing[i].kind = "obj" /\ veryLongFormat) =>
                    /\ i < Len(Listing)
                    /\ Listing[i + 1] = [Listing[i] EXCEPT !.kind = "detail"]
        /\ {Listing[i].name : i \in {k \in 1..Len(Listing) : Listing[k].kind = "coll"}}
              = ListedColls
        /\ \A i \in 1..Len(Listing) :
              Listing[i].kind = "coll" => Listing[i].path = Join(path, Listing[i].name)

\* Objects {b, a} and sub-collections {z, y}, enumerated in that order, short form.
C7_Witness ==
    /\ Listed /\ ~longFormat /\ ~veryLongFormat
    /\ Len(Segment[3].entries) = 2 /\ Segment[3].entries[1] > Segment[3].entries[2]
    /\ Len(Segment[2].entries) = 2 /\ Segment[2].entries[1] > Segment[2].entries[2]
    /\ Len(Listing) = 4

\* C8: a command obtains the session handle at most once and, having obtained
\* it, has released it exactly once when it returns, on every path; nothing is
\* released before the return; listOne holds at most one metadata connection
\* and has returned it when it returns.
C8_ScopedRelease ==
    /\ acquired <= 1
    /\ released <= acquired
    /\ pc = "done" => released = acquired
    /\ pc \notin {"start", "done"} => (acquired = 1 /\ released = 0)
    /\ connReturned <= connTaken
    /\ connTaken <= connReturned + 1
    /\ pc \in {"start", "loop", "connection", "lreturned", "done"} => connReturned = connTaken

\* rm without a path returns the argument error after releasing the handle.
C8_Witness ==
    /\ cmd = "rm" /\ pc = "done" /\ args = <<>>
    /\ Cause(err) = "Argument"
    /\ acquired = 1 /\ released = 1

\* C9: removeOne issues exactly one classification query, as its first call and
\* for its target; if the query fails, not-found or otherwise, removeOne
\* returns that error with no second query and no delete call.
C9_OneClassification ==
    (cmd = "rm" /\ pc \in {"dispatch", "returned"}) =>
        /\ path = MakeIRODSPath(args[idx])
        /\ OpsIn(Segment, {"StatIRODSPath"}) = {1}
        /\ Segment[1].path = path
        /\ Segment[1].err # Nil =>
              /\ pc = "returned"
              /\ Len(Segment) = 1
              /\ ret = Errorf("failed to stat", Segment[1].err)

C9_Witness ==
    /\ cmd = "rm" /\ pc = "returned"
    /\ Segment = <<Call("StatIRODSPath", path, NotFound)>>
    /\ IsFileNotFoundError(ret)

\* The first k targets have each been classified and deleted, successfully and
\* in argument order, and the log holds nothing else.
Processed(log, k) ==
    /\ Len(log) = 2 * k
    /\ \A i \in 1..k :
          /\ log[2 * i - 1].op = "StatIRODSPath"
          /\ log[2 * i].op \in DeleteOps
          /\ log[2 * i - 1].path = MakeIRODSPath(args[i])
          /\ log[2 * i].path = MakeIRODSPath(args[i])
          /\ log[2 * i - 1].err = Nil
          /\ log[2 * i].err = Nil

\* C10: rm takes its targets in argument order and returns at the first one
\* that fails: the log then holds the complete processing of the targets before
\* it, the calls for the failing target, and nothing for a later one; without
\* targets it returns the argument error and issues no call.
C10_InOrderStopAtFirst ==
    cmd = "rm" =>
        /\ pc = "loop" => Processed(calls, idx - 1)
        /\ InRemoveOne =>
              /\ Processed(SubSeq(calls, 1, cmark), idx - 1)
              /\ \A i \in 1..Len(Segment) : Segment[i].path = MakeIRODSPath(args[idx])
        /\ (pc = "done" /\ acquired = 1) =>
              IF args = <<>> THEN Cause(err) = "Argument" /\ calls = <<>>
              ELSE IF err = Nil THEN Processed(calls, Len(args))
              ELSE /\ Processed(SubSeq(calls, 1, cmark), idx - 1)
                   /\ Len(Segment) \in {1, 2}
                   /\ \A i \in 1..Len(Segment) : Segment[i].path = MakeIRODSPath(args[idx])
                   /\ ret # Nil
                   /\ err = Errorf("failed to perform rm", ret)

\* The first of two targets failed at the gate: nothing was issued for the second.
C10_Witness ==
    /\ cmd = "rm" /\ pc = "done" /\ Len(args) = 2 /\ idx = 1
    /\ Cause(err) = "SafetyGate"
    /\ Len(calls) = 1
====
